---- MODULE Spec2Model ----
(***************************************************************************)
(* The request-execution pipeline of go-http-client (package                *)
(* go_http_client): NewClient and its configuration options, the request    *)
(* options, the response validator, the parsers and Client.DoRequest.       *)
(*                                                                          *)
(* Go objects that are shared by reference are kept in a heap: http.Header  *)
(* maps in `headers`, the caller's io.Reader handed to WithBodyOpt in       *)
(* `readerLeft`, a response's body stream in `body`.  The standard library  *)
(* calls the code makes (http.NewRequest, Request.SetBasicAuth,             *)
(* httputil.DumpRequestOut / DumpResponse, ioutil.ReadAll, json.Decoder,    *)
(* logrus) are modelled by what they do to that state.                      *)
(***************************************************************************)
EXTENDS Integers, Sequences, FiniteSets, TLC

\* ---------------------------------------------------------------- bounds
\* Longest option list handed to NewClient.
MaxOptions == 2
\* Longest per-call option list handed to DoRequest.
MaxCallOptions == 1
\* Calls that run (interleaved) against one client in SpecShared.
NumCalls == 2

\* per-request timeout of the default transport, in seconds
DefaultTimeoutSeconds == 30
\* the default validator rejects above this status code
RejectAbove == 300

Calls == 1 .. NumCalls

\* sequences over S of length 0..n
RECURSIVE SeqsUpTo(_, _)
SeqsUpTo(S, n) ==
    IF n = 0 THEN {<< >>}
    ELSE LET shorter == SeqsUpTo(S, n - 1)
         IN  shorter \cup {Append(s, x) : s \in {t \in shorter : Len(t) = n - 1}, x \in S}

\* ---------------------------------------------------------------- values
User == "user"
Pass == "secret"

\* Request.SetBasicAuth: "Basic " + base64(username ":" password)
BasicAuthValue(username, password) == <<"Basic", username, password>>

HeaderKeys == {"Authorization", "User-Agent", "Accept"}
\* a freshly made http.Header
EmptyHeader == [k \in HeaderKeys |-> << >>]
\* the caller's header map handed to WithHeadersOpt
H1 == <<"user", 0>>
H1Initial == [EmptyHeader EXCEPT !["Accept"] = << <<"application/json">> >>]
\* the header map http.NewRequestWithContext makes for call c
OwnHeader(c) == <<"req", c>>
HeaderRefs == {H1} \cup {OwnHeader(c) : c \in Calls}

\* Header.Set / Header.Add
HeaderSet(h, k, v) == [h EXCEPT ![k] = <<v>>]
HeaderAdd(h, k, v) == [h EXCEPT ![k] = Append(@, v)]

\* the caller's in-memory io.Reader handed to WithBodyOpt holds this many bytes
ReaderBytes == 3

\* url.Values.Encode of the caller's query
Q1 == {<<"id", "test">>}
QueryEncode(q) == <<"urlencoded", q>>
NoQuery == <<"urlencoded", {}>>

\* response bodies a server sends
JsonDoc == "[{\"Id\":\"2\"},{\"Id\":\"1\"}]"
NotFoundText == "not found"
ContentLen(text) == IF text = "" THEN 0 ELSE IF text = NotFoundText THEN 9 ELSE 27
\* json.Decoder.Decode into the destination
JsonValid(text) == text = JsonDoc
JsonDecode(text) == IF text = JsonDoc THEN <<"2", "1">> ELSE << >>

StatusText(code) ==
    CASE code = 200 -> "200 OK"
      [] code = 201 -> "201 Created"
      [] code = 300 -> "300 Multiple Choices"
      [] code = 301 -> "301 Moved Permanently"
      [] code = 404 -> "404 Not Found"
      [] OTHER -> "unknown"

\* ---------------------------------------------------------------- errors
Err(kind, code, status, text) == [kind |-> kind, code |-> code, status |-> status, text |-> text]
Nil == Err("nil", 0, "", "")
Panic == Err("panic: nil pointer dereference", 0, "", "")
NotReturned == Err("running", 0, "", "")
\* fmt.Errorf("failed to apply global request option: %w", err)
WrapOption(e) == Err("failed to apply global request option", 0, "", e.kind)
StatusCodeError(code, status, text) == Err("StatusCodeError", code, status, text)
HTTPStatusCode(e) == e.code

\* ---------------------------------------------------------------- request options
\* A RequestOption is a closure: the function that made it and what it captured.
ReqOpt(fn, a, b) == [fn |-> fn, a |-> a, b |-> b]
WithQueryOpt(query) == ReqOpt("WithQueryOpt", query, "")
WithHeadersOpt(header) == ReqOpt("WithHeadersOpt", header, "")
WithBodyOpt(reader) == ReqOpt("WithBodyOpt", reader, "")
\* the closure RequestBasicAuthOption appends to the chain
SetBasicAuthOpt(username, password) == ReqOpt("SetBasicAuth", username, password)
\* a caller's own option: req.Header.Add("User-Agent", "my-api-client")
UserAgentOpt == ReqOpt("AddUserAgent", "my-api-client", "")

\* the request options callers pass (nil and non-nil inputs)
RequestOptions ==
    { WithQueryOpt("nil"), WithQueryOpt("Q1"),
      WithHeadersOpt("nil"), WithHeadersOpt("H1"),
      WithBodyOpt("nil"), WithBodyOpt("B1"),
      UserAgentOpt }

\* ---------------------------------------------------------------- client configuration
Endpoint == "http://host"
DefaultHttpClient == [impl |-> "http.Client", timeout |-> DefaultTimeoutSeconds]
MockHttpClient(name) == [impl |-> name, timeout |-> 0]

\* An Option is a closure over one argument.
Opt(name, s, b, fns, h) == [opt |-> name, s |-> s, b |-> b, fns |-> fns, h |-> h]
WithHttpClient(h) == Opt("WithHttpClient", "", FALSE, << >>, h)
WithLog(l) == Opt("WithLog", l, FALSE, << >>, DefaultHttpClient)
WithRequestOptions(fns) == Opt("WithRequestOptions", "", FALSE, fns, DefaultHttpClient)
RequestBasicAuthOption(username, password) ==
    Opt("RequestBasicAuthOption", "", FALSE, <<SetBasicAuthOpt(username, password)>>, DefaultHttpClient)
WithDebug(b) == Opt("WithDebug", "", b, << >>, DefaultHttpClient)
WithResponseValidator(v) == Opt("WithResponseValidator", v, FALSE, << >>, DefaultHttpClient)

\* the Client struct literal of NewClient, before any option ran
DefaultClient(endpoint) ==
    [ endpoint            |-> endpoint,
      httpClient          |-> DefaultHttpClient,
      log                 |-> "log.New()",
      requestOptionsChain |-> << >>,
      validateResponseFn  |-> "ResponseValidator",
      debug               |-> FALSE ]

\* a slip: the new options are put in front of the chain
PrependChain(chain, fns) == fns \o chain

\* the chain after an appending option ran
AppendChain(chain, fns) == chain \o fns

\* opt(c): what one configuration option does to the client
ApplyOption(cl, o) ==
    CASE o.opt = "WithHttpClient" -> [cl EXCEPT !.httpClient = o.h]
      [] o.opt = "WithLog" -> [cl EXCEPT !.log = o.s]
      [] o.opt = "WithRequestOptions" ->
            [cl EXCEPT !.requestOptionsChain = AppendChain(@, o.fns)]
      [] o.opt = "RequestBasicAuthOption" ->
            [cl EXCEPT !.requestOptionsChain = AppendChain(@, o.fns)]
      [] o.opt = "WithDebug" -> [cl EXCEPT !.debug = o.b]
      [] o.opt = "WithResponseValidator" -> [cl EXCEPT !.validateResponseFn = o.s]

\* the loop of NewClient over options[1..n]
RECURSIVE ApplyOptions(_, _, _)
ApplyOptions(cl, opts, n) ==
    IF n = 0 THEN cl ELSE ApplyOption(ApplyOptions(cl, opts, n - 1), opts[n])

NewClient(endpoint, opts) == ApplyOptions(DefaultClient(endpoint), opts, Len(opts))

\* every configuration option, with two values for each scalar field
AllConfigOptions ==
    { WithHttpClient(MockHttpClient("mockA")), WithHttpClient(MockHttpClient("mockB")),
      WithLog("nil"), WithLog("custom"),
      WithDebug(TRUE), WithDebug(FALSE),
      WithResponseValidator("custom"), WithResponseValidator("ResponseValidator"),
      RequestBasicAuthOption(User, Pass),
      WithRequestOptions(<< >>),
      WithRequestOptions(<<UserAgentOpt, WithQueryOpt("Q1")>>) }
    \cup { WithRequestOptions(<<f>>) : f \in RequestOptions }

\* the configuration options the pipeline is explored under
PipelineConfigOptions ==
    { WithLog("nil"), WithDebug(TRUE), WithResponseValidator("custom"),
      RequestBasicAuthOption(User, Pass),
      WithRequestOptions(<<WithBodyOpt("B1"), WithQueryOpt("Q1")>>),
      WithRequestOptions(<<UserAgentOpt, WithQueryOpt("nil"), WithHeadersOpt("H1")>>) }

\* the per-call options the pipeline is explored under
PipelineCallOptions == { WithHeadersOpt("H1"), WithHeadersOpt("nil") }
\* the per-call options of calls that share a client
SharedCallOptions == { UserAgentOpt }

\* the configuration options of the clients that calls share
SharedConfigOptions ==
    { WithDebug(TRUE), RequestBasicAuthOption(User, Pass),
      WithRequestOptions(<<WithHeadersOpt("H1")>>),
      WithRequestOptions(<<WithBodyOpt("B1")>>) }

\* ---------------------------------------------------------------- requests
Methods == {"GET", "BAD METHOD"}
ValidMethod(m) == m \in {"GET", "DELETE"}

\* http.NewRequestWithContext(ctx, method, c.endpoint+path, nil)
FreshRequest(c, method) ==
    [ Method |-> method, Query |-> NoQuery, Header |-> OwnHeader(c),
      Body |-> "nil", BodyBytes |-> 0, ContentLength |-> 0 ]

OptResult(e, r, hs) == [err |-> e, req |-> r, headers |-> hs]

\* the closure WithQueryOpt returns
RunWithQueryOpt(o, r, hs) ==
    IF o.a = "nil"
    THEN OptResult(Err("WithQueryOpt error", 0, "", ""), r, hs)
    ELSE OptResult(Nil, [r EXCEPT !.Query = QueryEncode(Q1)], hs)

\* the closure WithHeadersOpt returns: the request now points at the caller's map
RunWithHeadersOpt(o, r, hs) ==
    IF o.a = "nil"
    THEN OptResult(Err("WithHeadersOpt error", 0, "", ""), r, hs)
    ELSE OptResult(Nil, [r EXCEPT !.Header = H1], hs)

\* the closure WithBodyOpt returns; http.NewRequest measures an in-memory reader
\* and leaves http.NoBody for one that has nothing left
RunWithBodyOpt(o, r, hs, left) ==
    IF o.a = "nil"
    THEN OptResult(Err("WithBodyOpt error", 0, "", ""), r, hs)
    ELSE OptResult(Nil,
            [r EXCEPT !.Body = IF left = 0 THEN "NoBody" ELSE "B1",
                      !.BodyBytes = 0,
                      !.ContentLength = left], hs)

\* the closure of RequestBasicAuthOption: req.SetBasicAuth(username, password)
RunSetBasicAuth(o, r, hs) ==
    OptResult(Nil, r,
        [hs EXCEPT ![r.Header] = HeaderSet(@, "Authorization", BasicAuthValue(o.a, o.b))])

\* the caller's option: req.Header.Add("User-Agent", ...)
RunAddUserAgent(o, r, hs) ==
    OptResult(Nil, r, [hs EXCEPT ![r.Header] = HeaderAdd(@, "User-Agent", o.a)])

\* opt(req)
RunOption(o, r, hs, left) ==
    CASE o.fn = "WithQueryOpt" -> RunWithQueryOpt(o, r, hs)
      [] o.fn = "WithHeadersOpt" -> RunWithHeadersOpt(o, r, hs)
      [] o.fn = "WithBodyOpt" -> RunWithBodyOpt(o, r, hs, left)
      [] o.fn = "SetBasicAuth" -> RunSetBasicAuth(o, r, hs)
      [] o.fn = "AddUserAgent" -> RunAddUserAgent(o, r, hs)

\* both loops of DoRequest over opts[i..]: stops at the first option that fails
RECURSIVE RunChain(_, _, _, _, _)
RunChain(opts, i, r, hs, left) ==
    IF i > Len(opts) THEN OptResult(Nil, r, hs)
    ELSE LET one == RunOption(opts[i], r, hs, left)
         IN  IF one.err # Nil THEN one
             ELSE RunChain(opts, i + 1, one.req, one.headers, left)

\* the bytes a request body holds for whoever reads it
RequestBodyBytes(r, left) ==
    CASE r.Body = "B1" -> left
      [] r.Body = "copy" -> r.BodyBytes
      [] OTHER -> 0

\* the request as the transport sees it
OnWire(r, hs, left) ==
    [ Method |-> r.Method, Query |-> r.Query, Header |-> hs[r.Header],
      ContentLength |-> r.ContentLength, BodyBytes |-> RequestBodyBytes(r, left) ]
NothingOnWire ==
    [ Method |-> "", Query |-> NoQuery, Header |-> EmptyHeader,
      ContentLength |-> 0, BodyBytes |-> 0 ]

\* ---------------------------------------------------------------- responses
StatusCodes == {200, 300, 301, 404}

\* what a transport's Do answers: an error, or a response with its body stream
Outcome(failed, code, kind, content, readErr, cl) ==
    [ err |-> failed, StatusCode |-> code, kind |-> kind, content |-> content,
      readErr |-> readErr, ContentLength |-> cl ]
TransportError == Outcome(TRUE, 0, "none", "", FALSE, 0)
\* an empty body (http.NoBody)
EmptyResponse(code) == Outcome(FALSE, code, "NoBody", "", FALSE, 0)
\* a body that is read to its end
TextResponse(code, text) == Outcome(FALSE, code, "stream", text, FALSE, ContentLen(text))
\* a body of unknown length whose stream breaks after its text was read
BrokenResponse(code, text) == Outcome(FALSE, code, "stream", text, TRUE, -1)
TransportOutcomes ==
    { TransportError }
    \cup { EmptyResponse(code) : code \in StatusCodes }
    \cup { TextResponse(code, NotFoundText) : code \in StatusCodes }
    \cup { TextResponse(200, JsonDoc) }
    \cup { BrokenResponse(code, JsonDoc) : code \in StatusCodes }
\* the answers of the transport that calls sharing a client talk to
SharedOutcomes == { TransportError, EmptyResponse(200) }

NoResponse == [StatusCode |-> 0, Status |-> "", ContentLength |-> 0, Body |-> "none"]
NoStream == [kind |-> "none", content |-> "", readErr |-> FALSE, consumed |-> FALSE, closes |-> 0]
NoCopy == [content |-> "", consumed |-> FALSE]

ResponseOf(t) ==
    [StatusCode |-> t.StatusCode, Status |-> StatusText(t.StatusCode),
     ContentLength |-> t.ContentLength, Body |-> "orig"]
StreamOf(t) ==
    [kind |-> t.kind, content |-> t.content, readErr |-> t.readErr, consumed |-> FALSE, closes |-> 0]

\* what is left to read of a response's Body (the transport's stream or a buffer)
Unread(rs, b, cp) ==
    IF rs.Body = "copy" THEN (IF cp.consumed THEN "" ELSE cp.content)
    ELSE IF b.kind = "stream" /\ ~b.consumed THEN b.content ELSE ""
\* whether reading the Body to its end hits the stream's error
ReadFails(rs, b) == rs.Body = "orig" /\ b.kind = "stream" /\ b.readErr
\* the stream and the buffer after the Body was read
AfterRead(rs, b, cp) ==
    [ body |-> IF rs.Body = "orig" /\ b.kind = "stream" THEN [b EXCEPT !.consumed = TRUE] ELSE b,
      copy |-> IF rs.Body = "copy" THEN [cp EXCEPT !.consumed = TRUE] ELSE cp ]

\* body.Close()
CloseBody(b) == [b EXCEPT !.closes = @ + 1]

\* ---------------------------------------------------------------- logging
\* log.Infof / log.WithError(err).Error on a nil *logrus.Logger dereferences it
LogPanics(log) == log = "nil"

\* httputil.DumpRequestOut(req, true) drains req.Body into a buffer and puts the
\* buffer back as the request's body
DumpRequestOut(r, left) ==
    [ req |-> IF r.Body = "B1"
              THEN [r EXCEPT !.Body = "copy", !.BodyBytes = left]
              ELSE IF r.Body = "nil" THEN [r EXCEPT !.Body = "NoBody"] ELSE r,
      readerLeft |-> IF r.Body = "B1" THEN 0 ELSE left ]

\* whether httputil's drainBody closes the body it drained: it leaves nil and
\* http.NoBody alone, and returns early when reading fails
DrainCloses(rs, b) == rs.Body = "orig" /\ b.kind = "stream" /\ ~b.readErr

\* httputil.DumpResponse(resp, true): drains resp.Body, closes it, and leaves a
\* buffer holding what it read as the response's Body; when reading fails the
\* Body stays the (now read) stream
DumpResponse(rs, b, cp) ==
    IF rs.Body = "orig" /\ b.kind = "NoBody"
    THEN [ok |-> TRUE, resp |-> rs, body |-> b, copy |-> cp]
    ELSE IF ReadFails(rs, b)
    THEN [ok |-> FALSE, resp |-> rs, body |-> AfterRead(rs, b, cp).body, copy |-> cp]
    ELSE [ok |-> TRUE,
          resp |-> [rs EXCEPT !.Body = "copy"],
          body |-> IF DrainCloses(rs, b) THEN CloseBody(AfterRead(rs, b, cp).body) ELSE b,
          copy |-> [content |-> Unread(rs, b, cp), consumed |-> FALSE]]

\* logResponse(resp, log)
LogResponseOp(rs, b, cp, log) ==
    LET d == DumpResponse(rs, b, cp)
    IN  [ panic |-> LogPanics(log), resp |-> d.resp, body |-> d.body, copy |-> d.copy,
          entries |-> IF LogPanics(log) THEN << >>
                      ELSE IF d.ok THEN <<"response dump">>
                      ELSE <<"failed to dump http response for logging">> ]

\* ---------------------------------------------------------------- validator
Verdict(e, b, cp) == [err |-> e, body |-> b, copy |-> cp]

\* a slip: the boundary moved to status >= 300
ResponseValidatorFrom300(rs, b, cp) ==
    IF rs.StatusCode >= RejectAbove
    THEN LET after == AfterRead(rs, b, cp)
         IN  IF ReadFails(rs, b)
             THEN Verdict(Err("failed to read response body", 0, "", "unexpected EOF"),
                          after.body, after.copy)
             ELSE Verdict(StatusCodeError(rs.StatusCode, rs.Status, Unread(rs, b, cp)),
                          after.body, after.copy)
    ELSE Verdict(Nil, b, cp)

\* ResponseValidator(resp)
ResponseValidator(rs, b, cp) ==
    IF rs.StatusCode > RejectAbove
    THEN LET after == AfterRead(rs, b, cp)
         IN  IF ReadFails(rs, b)
             THEN Verdict(Err("failed to read response body", 0, "", "unexpected EOF"),
                          after.body, after.copy)
             ELSE Verdict(StatusCodeError(rs.StatusCode, rs.Status, Unread(rs, b, cp)),
                          after.body, after.copy)
    ELSE Verdict(Nil, b, cp)

\* a caller's validator, set with WithResponseValidator: accepts or rejects as it
\* likes and leaves the body alone
CustomValidator(accept, rs, b, cp) ==
    Verdict(IF accept THEN Nil ELSE Err("custom validator error", rs.StatusCode, "", ""), b, cp)

\* c.validateResponseFn(resp)
ValidateResponse(fn, accept, rs, b, cp) ==
    IF fn = "ResponseValidator" THEN ResponseValidator(rs, b, cp)
    ELSE CustomValidator(accept, rs, b, cp)

\* ---------------------------------------------------------------- parsers
Parser(kind, dest, log) == [kind |-> kind, dst |-> dest, log |-> log]
JsonParser(dest) == Parser("JsonParser", dest, "")
RawStringParser(dest) == Parser("RawStringParser", dest, "")
RawBodyParser(dest) == Parser("RawBodyParser", dest, "")
NoBodyParser(log) == Parser("NoBodyParser", "", log)

\* the parsers callers pass, besides NoBodyParser(c.log)
Parsers ==
    { JsonParser("ptr"), JsonParser("nil"), RawStringParser("ptr"), RawStringParser("nil"),
      RawBodyParser("ptr"), RawBodyParser("nil") }

Unset == [type |-> "unset", val |-> << >>]
Parsed(e, rs, b, cp, d, entries, panicked) ==
    [err |-> e, resp |-> rs, body |-> b, copy |-> cp, dst |-> d, entries |-> entries,
     panic |-> panicked]

\* the closure of RawStringParser / RawBodyParser: *dst = string(body) / *dst = body
RunRawParser(p, rs, b, cp, type) ==
    IF p.dst = "nil"
    THEN Parsed(Err("parser function error", 0, "", p.kind), rs, b, cp, Unset, << >>, FALSE)
    ELSE LET after == AfterRead(rs, b, cp)
         IN  IF ReadFails(rs, b)
             THEN Parsed(Err("failed to read resp body", 0, "", "unexpected EOF"),
                         rs, after.body, after.copy, Unset, << >>, FALSE)
             ELSE Parsed(Nil, rs, after.body, after.copy,
                         [type |-> type, val |-> <<Unread(rs, b, cp)>>], << >>, FALSE)

\* the closure of JsonParser: json.NewDecoder(resp.Body).Decode(dst) stops reading
\* once it holds a whole value
RunJsonParser(p, rs, b, cp) ==
    IF p.dst = "nil"
    THEN Parsed(Err("parser function error", 0, "", p.kind), rs, b, cp, Unset, << >>, FALSE)
    ELSE LET after == AfterRead(rs, b, cp)
             text  == Unread(rs, b, cp)
         IN  IF JsonValid(text)
             THEN Parsed(Nil, rs, after.body, after.copy,
                         [type |-> "json", val |-> JsonDecode(text)], << >>, FALSE)
             ELSE IF ReadFails(rs, b)
             THEN Parsed(Err("unexpected EOF", 0, "", ""), rs, after.body, after.copy,
                         Unset, << >>, FALSE)
             ELSE IF text = ""
             THEN Parsed(Err("EOF", 0, "", ""), rs, after.body, after.copy, Unset, << >>, FALSE)
             ELSE Parsed(Err("json syntax error", 0, "", ""), rs, after.body, after.copy,
                         Unset, << >>, FALSE)

\* the closure of NoBodyParser
RunNoBodyParser(p, rs, b, cp) ==
    IF rs.ContentLength # 0 /\ p.log # "nil"
    THEN LET l == LogResponseOp(rs, b, cp, p.log)
         IN  Parsed(Nil, l.resp, l.body, l.copy, Unset, l.entries, l.panic)
    ELSE Parsed(Nil, rs, b, cp, Unset, << >>, FALSE)

\* parser(resp)
RunParser(p, rs, b, cp) ==
    CASE p.kind = "JsonParser" -> RunJsonParser(p, rs, b, cp)
      [] p.kind = "RawStringParser" -> RunRawParser(p, rs, b, cp, "string")
      [] p.kind = "RawBodyParser" -> RunRawParser(p, rs, b, cp, "bytes")
      [] p.kind = "NoBodyParser" -> RunNoBodyParser(p, rs, b, cp)

\* ---------------------------------------------------------------- state
VARIABLES
    constructed,  \* whether NewClient has returned
    options,      \* the options NewClient was called with
    client,       \* the Client
    headers,      \* the http.Header maps, by reference
    readerLeft,   \* unread bytes of the caller's io.Reader B1
    pc,           \* where each DoRequest call stands
    args,         \* each call's method, parser and per-call options
    req,          \* each call's *http.Request
    idx,          \* each call's position in the option loop it is in
    applied,      \* the options each call has applied, in order, each with its loop
    wire,         \* the request each call's transport received
    outcome,      \* what each call's transport answered
    resp,         \* each call's *http.Response
    body,         \* the body stream the transport returned to each call
    copy,         \* the buffer a dump left as each call's resp.Body
    result,       \* what each DoRequest returned
    dst,          \* what each call's parser stored in its destination
    logs,         \* the log entries of each call
    trace         \* how often each call invoked transport, validator and parser,
                  \* and what each returned

config == <<constructed, options, client>>
heap == <<headers, readerLeft>>
vars == <<constructed, options, client, headers, readerLeft, pc, args, req, idx, applied,
          wire, outcome, resp, body, copy, result, dst, logs, trace>>

NoArgs == [method |-> "", parser |-> NoBodyParser("nil"), options |-> << >>]
NoOutcome == Outcome(FALSE, 0, "none", "", FALSE, 0)
NoTrace ==
    [ transport |-> 0, validator |-> 0, parser |-> 0,
      optionErr |-> Nil,   \* the error an option returned
      verdict |-> Nil,     \* what the validator returned
      parserErr |-> Nil ]  \* what the parser returned

Init ==
    /\ constructed = FALSE
    /\ options = << >>
    /\ client = DefaultClient("")
    /\ headers = [h \in HeaderRefs |-> IF h = H1 THEN H1Initial ELSE EmptyHeader]
    /\ readerLeft = ReaderBytes
    /\ pc = [c \in Calls |-> "idle"]
    /\ args = [c \in Calls |-> NoArgs]
    /\ req = [c \in Calls |-> FreshRequest(c, "")]
    /\ idx = [c \in Calls |-> 1]
    /\ applied = [c \in Calls |-> << >>]
    /\ wire = [c \in Calls |-> NothingOnWire]
    /\ outcome = [c \in Calls |-> NoOutcome]
    /\ resp = [c \in Calls |-> NoResponse]
    /\ body = [c \in Calls |-> NoStream]
    /\ copy = [c \in Calls |-> NoCopy]
    /\ result = [c \in Calls |-> NotReturned]
    /\ dst = [c \in Calls |-> Unset]
    /\ logs = [c \in Calls |-> << >>]
    /\ trace = [c \in Calls |-> NoTrace]

\* ---------------------------------------------------------------- NewClient
\* NewClient(endpoint, options...)
Construct(alphabet) ==
    /\ ~constructed
    /\ \E opts \in SeqsUpTo(alphabet, MaxOptions) :
          /\ options' = opts
          /\ client' = NewClient(Endpoint, opts)
    /\ constructed' = TRUE
    /\ UNCHANGED <<headers, readerLeft, pc, args, req, idx, applied, wire, outcome, resp,
                   body, copy, result, dst, logs, trace>>

\* ---------------------------------------------------------------- DoRequest
\* a slip: the loop over the global chain stops one option short
StageAtOneShort(cl, a, stage, i) ==
    IF stage = "globalOptions" /\ i < Len(cl.requestOptionsChain)
    THEN [pc |-> "globalOptions", idx |-> i]
    ELSE IF stage = "globalOptions" /\ Len(a.options) >= 1
    THEN [pc |-> "callOptions", idx |-> 1]
    ELSE IF stage = "callOptions" /\ i <= Len(a.options)
    THEN [pc |-> "callOptions", idx |-> i]
    ELSE [pc |-> IF cl.debug THEN "logRequest" ELSE "send", idx |-> 1]

\* the statement DoRequest goes to once option i-1 of a loop succeeded
StageAt(cl, a, stage, i) ==
    IF stage = "globalOptions" /\ i <= Len(cl.requestOptionsChain)
    THEN [pc |-> "globalOptions", idx |-> i]
    ELSE IF stage = "globalOptions" /\ Len(a.options) >= 1
    THEN [pc |-> "callOptions", idx |-> 1]
    ELSE IF stage = "callOptions" /\ i <= Len(a.options)
    THEN [pc |-> "callOptions", idx |-> i]
    ELSE [pc |-> IF cl.debug THEN "logRequest" ELSE "send", idx |-> 1]

\* the deferred resp.Body.Close(): bound to the transport's stream when the defer
\* statement ran
RunDeferred(b) == IF b.kind = "none" THEN b ELSE CloseBody(b)

\* return e
Return(c, e, b) ==
    /\ result' = [result EXCEPT ![c] = e]
    /\ body' = [body EXCEPT ![c] = RunDeferred(b)]
    /\ pc' = [pc EXCEPT ![c] = "done"]

\* DoRequest up to its first loop: http.NewRequestWithContext
Begin(c, method, parser, opts) ==
    /\ constructed
    /\ pc[c] = "idle"
    /\ args' = [args EXCEPT ![c] = [method |-> method, parser |-> parser, options |-> opts]]
    /\ IF ~ValidMethod(method)
       THEN /\ Return(c, Err("net/http: invalid method", 0, "", method), body[c])
            /\ UNCHANGED <<req, idx, headers>>
       ELSE /\ req' = [req EXCEPT ![c] = FreshRequest(c, method)]
            /\ headers' = [headers EXCEPT ![OwnHeader(c)] = EmptyHeader]
            /\ LET at == StageAt(client, args'[c], "globalOptions", 1)
               IN  /\ pc' = [pc EXCEPT ![c] = at.pc]
                   /\ idx' = [idx EXCEPT ![c] = at.idx]
            /\ UNCHANGED <<result, body>>
    /\ UNCHANGED <<config, readerLeft, applied, wire, outcome, resp, copy, dst, logs, trace>>

\* the entry points: each forwards to DoRequest with its parser
DoRequest(c, methods, callOptions) ==
    \E m \in methods, p \in Parsers \cup {NoBodyParser(client.log)},
       o \in SeqsUpTo(callOptions, MaxCallOptions) :
        Begin(c, m, p, o)
DoRequestJson(c, methods, callOptions) ==
    \E m \in methods, d \in {"ptr", "nil"}, o \in SeqsUpTo(callOptions, MaxCallOptions) :
        Begin(c, m, JsonParser(d), o)
GetJson(c, callOptions) == DoRequestJson(c, {"GET"}, callOptions)
DoRequestNoBody(c, methods, callOptions) ==
    \E m \in methods, o \in SeqsUpTo(callOptions, MaxCallOptions) :
        Begin(c, m, NoBodyParser(client.log), o)
Get(c, callOptions) == DoRequestNoBody(c, {"GET"}, callOptions)
DoRequestString(c, methods, callOptions) ==
    \E m \in methods, d \in {"ptr", "nil"}, o \in SeqsUpTo(callOptions, MaxCallOptions) :
        Begin(c, m, RawStringParser(d), o)

\* a slip: the loop carries on after an option failed
ApplyNextIgnoringError(c, chain, stage) ==
    LET one == RunOption(chain[idx[c]], req[c], headers, readerLeft)
    IN  /\ applied' = [applied EXCEPT ![c] =
                          Append(@, [stage |-> stage, i |-> idx[c], opt |-> chain[idx[c]]])]
        /\ trace' = [trace EXCEPT ![c].optionErr = one.err]
        /\ req' = [req EXCEPT ![c] = one.req]
        /\ headers' = one.headers
        /\ LET at == StageAt(client, args[c], stage, idx[c] + 1)
           IN  /\ pc' = [pc EXCEPT ![c] = at.pc]
               /\ idx' = [idx EXCEPT ![c] = at.idx]
        /\ UNCHANGED <<result, body>>
        /\ UNCHANGED <<config, readerLeft, args, wire, outcome, resp, copy, dst, logs>>

\* one iteration of a loop over an option chain
ApplyNext(c, chain, stage) ==
    LET one == RunOption(chain[idx[c]], req[c], headers, readerLeft)
    IN  /\ applied' = [applied EXCEPT ![c] =
                          Append(@, [stage |-> stage, i |-> idx[c], opt |-> chain[idx[c]]])]
        /\ trace' = [trace EXCEPT ![c].optionErr = one.err]
        /\ IF one.err # Nil
           THEN /\ Return(c, WrapOption(one.err), body[c])
                /\ UNCHANGED <<req, headers, idx>>
           ELSE /\ req' = [req EXCEPT ![c] = one.req]
                /\ headers' = one.headers
                /\ LET at == StageAt(client, args[c], stage, idx[c] + 1)
                   IN  /\ pc' = [pc EXCEPT ![c] = at.pc]
                       /\ idx' = [idx EXCEPT ![c] = at.idx]
                /\ UNCHANGED <<result, body>>
        /\ UNCHANGED <<config, readerLeft, args, wire, outcome, resp, copy, dst, logs>>

\* for _, opt := range c.requestOptionsChain
GlobalOption(c) ==
    /\ pc[c] = "globalOptions"
    /\ ApplyNext(c, client.requestOptionsChain, "globalOptions")

\* for _, opt := range options
CallOption(c) ==
    /\ pc[c] = "callOptions"
    /\ ApplyNext(c, args[c].options, "callOptions")

\* if c.debug { logRequest(req, c.log) }
LogRequest(c) ==
    /\ pc[c] = "logRequest"
    /\ LET d == DumpRequestOut(req[c], readerLeft)
       IN  /\ req' = [req EXCEPT ![c] = d.req]
           /\ readerLeft' = d.readerLeft
           /\ IF LogPanics(client.log)
              THEN /\ Return(c, Panic, body[c])
                   /\ UNCHANGED logs
              ELSE /\ \E dumped \in BOOLEAN :
                        logs' = [logs EXCEPT ![c] = Append(@,
                                    IF dumped THEN "request dump"
                                    ELSE "failed to dump http request for logging")]
                   /\ pc' = [pc EXCEPT ![c] = "send"]
                   /\ UNCHANGED <<result, body>>
    /\ UNCHANGED <<config, headers, args, idx, applied, wire, outcome, resp, copy, dst, trace>>

\* resp, err := c.httpClient.Do(req); defer resp.Body.Close()
Send(c, outcomes) ==
    /\ pc[c] = "send"
    /\ \E t \in outcomes :
          /\ outcome' = [outcome EXCEPT ![c] = t]
          /\ wire' = [wire EXCEPT ![c] = OnWire(req[c], headers, readerLeft)]
          /\ trace' = [trace EXCEPT ![c].transport = @ + 1]
          /\ IF t.err
             THEN /\ Return(c, Err("transport error", 0, "", ""), body[c])
                  /\ UNCHANGED <<resp, readerLeft, req>>
             ELSE /\ resp' = [resp EXCEPT ![c] = ResponseOf(t)]
                  /\ body' = [body EXCEPT ![c] = StreamOf(t)]
                  /\ readerLeft' = IF req[c].Body = "B1" THEN 0 ELSE readerLeft
                  /\ req' = [req EXCEPT ![c].BodyBytes = 0]
                  /\ pc' = [pc EXCEPT ![c] = IF client.debug THEN "logResponse" ELSE "validate"]
                  /\ UNCHANGED result
    /\ UNCHANGED <<config, headers, args, idx, applied, copy, dst, logs>>

\* if c.debug { logResponse(resp, c.log) }
LogResponse(c) ==
    /\ pc[c] = "logResponse"
    /\ LET l == LogResponseOp(resp[c], body[c], copy[c], client.log)
       IN  /\ resp' = [resp EXCEPT ![c] = l.resp]
           /\ copy' = [copy EXCEPT ![c] = l.copy]
           /\ logs' = [logs EXCEPT ![c] = @ \o l.entries]
           /\ IF l.panic
              THEN Return(c, Panic, l.body)
              ELSE /\ body' = [body EXCEPT ![c] = l.body]
                   /\ pc' = [pc EXCEPT ![c] = "validate"]
                   /\ UNCHANGED result
    /\ UNCHANGED <<config, heap, args, req, idx, applied, wire, outcome, dst, trace>>

\* a slip: the validator's error is dropped and the parser runs anyway
ValidateIgnoringRejection(c) ==
    /\ pc[c] = "validate"
    /\ \E accept \in BOOLEAN :
          LET v == ValidateResponse(client.validateResponseFn, accept, resp[c], body[c], copy[c])
          IN  /\ trace' = [trace EXCEPT ![c].validator = @ + 1, ![c].verdict = v.err]
              /\ copy' = [copy EXCEPT ![c] = v.copy]
              /\ body' = [body EXCEPT ![c] = v.body]
              /\ pc' = [pc EXCEPT ![c] = "parse"]
              /\ UNCHANGED result
    /\ UNCHANGED <<config, heap, args, req, idx, applied, wire, outcome, resp, dst, logs>>

\* if err := c.validateResponseFn(resp); err != nil { return err }
Validate(c) ==
    /\ pc[c] = "validate"
    /\ \E accept \in BOOLEAN :
          LET v == ValidateResponse(client.validateResponseFn, accept, resp[c], body[c], copy[c])
          IN  /\ trace' = [trace EXCEPT ![c].validator = @ + 1, ![c].verdict = v.err]
              /\ copy' = [copy EXCEPT ![c] = v.copy]
              /\ IF v.err # Nil
                 THEN Return(c, v.err, v.body)
                 ELSE /\ body' = [body EXCEPT ![c] = v.body]
                      /\ pc' = [pc EXCEPT ![c] = "parse"]
                      /\ UNCHANGED result
    /\ UNCHANGED <<config, heap, args, req, idx, applied, wire, outcome, resp, dst, logs>>

\* a slip: the parser's error is dropped
ParseSwallowingError(c) ==
    /\ pc[c] = "parse"
    /\ LET p == RunParser(args[c].parser, resp[c], body[c], copy[c])
       IN  /\ trace' = [trace EXCEPT ![c].parser = @ + 1, ![c].parserErr = p.err]
           /\ resp' = [resp EXCEPT ![c] = p.resp]
           /\ copy' = [copy EXCEPT ![c] = p.copy]
           /\ dst' = [dst EXCEPT ![c] = p.dst]
           /\ logs' = [logs EXCEPT ![c] = @ \o p.entries]
           /\ Return(c, Nil, p.body)
    /\ UNCHANGED <<config, heap, args, req, idx, applied, wire, outcome>>

\* return parser(resp)
Parse(c) ==
    /\ pc[c] = "parse"
    /\ LET p == RunParser(args[c].parser, resp[c], body[c], copy[c])
       IN  /\ trace' = [trace EXCEPT ![c].parser = @ + 1, ![c].parserErr = p.err]
           /\ resp' = [resp EXCEPT ![c] = p.resp]
           /\ copy' = [copy EXCEPT ![c] = p.copy]
           /\ dst' = [dst EXCEPT ![c] = p.dst]
           /\ logs' = [logs EXCEPT ![c] = @ \o p.entries]
           /\ Return(c, IF p.panic THEN Panic ELSE p.err, p.body)
    /\ UNCHANGED <<config, heap, args, req, idx, applied, wire, outcome>>

\* the steps of call c once DoRequest was entered
Step(c, outcomes) ==
    \/ GlobalOption(c)
    \/ CallOption(c)
    \/ LogRequest(c)
    \/ Send(c, outcomes)
    \/ LogResponse(c)
    \/ Validate(c)
    \/ Parse(c)

\* one client, one call
Next ==
    \/ Construct(PipelineConfigOptions)
    \/ DoRequest(1, Methods, PipelineCallOptions)
    \/ DoRequestJson(1, Methods, PipelineCallOptions)
    \/ GetJson(1, PipelineCallOptions)
    \/ DoRequestNoBody(1, Methods, PipelineCallOptions)
    \/ Get(1, PipelineCallOptions)
    \/ DoRequestString(1, Methods, PipelineCallOptions)
    \/ Step(1, TransportOutcomes)

Spec == Init /\ [][Next]_vars

\* NewClient alone, over every configuration option
NextNew == Construct(AllConfigOptions)

SpecNew == Init /\ [][NextNew]_vars

\* one client shared by calls that interleave
NextShared ==
    \/ Construct(SharedConfigOptions)
    \/ \E c \in Calls :
          \/ Get(c, SharedCallOptions)
          \/ Step(c, SharedOutcomes)

SpecShared == Init /\ [][NextShared]_vars

\* ---------------------------------------------------------------- properties
\* the options of a call in the order the spec gives: the client's chain, then
\* the call's own
Declared(c) ==
    LET chain == client.requestOptionsChain
        own   == args[c].options
        n     == Len(chain)
    IN  [ k \in 1 .. (n + Len(own)) |->
            IF k <= n THEN [stage |-> "globalOptions", i |-> k, opt |-> chain[k]]
            ELSE [stage |-> "callOptions", i |-> k - n, opt |-> own[k - n]] ]

\* the call has left both option loops with every option applied
PastOptions(c) ==
    \/ pc[c] \in {"logRequest", "send", "logResponse", "validate", "parse"}
    \/ pc[c] = "done" /\ trace[c].transport > 0
    \/ pc[c] = "done" /\ result[c] = Panic

\* the transport returned a response to the call
GotResponse(c) == trace[c].transport > 0 /\ ~outcome[c].err

\* C1: the options a call has applied are always a prefix of the client's chain
\* followed by the call's own options, each in declaration order and once; a
\* call that got past both loops has applied exactly that sequence.
C1_OptionOrder ==
    \A c \in Calls :
        /\ Len(applied[c]) <= Len(Declared(c))
        /\ applied[c] = SubSeq(Declared(c), 1, Len(applied[c]))
        /\ PastOptions(c) => applied[c] = Declared(c)

\* a call on a client with chain [A, B] and own options [C] that applied A, B, C
C1_Witness ==
    /\ Len(client.requestOptionsChain) = 2
    /\ Len(args[1].options) = 1
    /\ pc[1] = "send"
    /\ applied[1] = << [stage |-> "globalOptions", i |-> 1, opt |-> client.requestOptionsChain[1]],
                       [stage |-> "globalOptions", i |-> 2, opt |-> client.requestOptionsChain[2]],
                       [stage |-> "callOptions", i |-> 1, opt |-> args[1].options[1]] >>

\* C2: the body stream the transport returned is never closed twice, and a call
\* that got a response and returned has closed it exactly once.
C2_BodyClosedExactlyOnce ==
    \A c \in Calls :
        /\ body[c].closes <= 1
        /\ (pc[c] = "done" /\ GotResponse(c)) => body[c].closes = 1

\* C3: in a call that got a response the validator runs once; if it rejects, the
\* call returns its error and the parser never runs; if it accepts, the parser
\* runs exactly once.  A 404 under the default validator returns an error whose
\* HTTPStatusCode() is 404.
C3_ValidateThenParse ==
    \A c \in Calls :
        /\ trace[c].validator <= 1 /\ trace[c].parser <= 1
        /\ trace[c].parser = 1 => (trace[c].validator = 1 /\ trace[c].verdict = Nil)
        /\ (pc[c] = "done" /\ GotResponse(c)) =>
              /\ trace[c].validator = 1
              /\ trace[c].verdict # Nil => (result[c] = trace[c].verdict /\ trace[c].parser = 0)
              /\ trace[c].verdict = Nil => trace[c].parser = 1
              /\ ( /\ client.validateResponseFn = "ResponseValidator"
                   /\ outcome[c].StatusCode = 404
                   /\ ~outcome[c].readErr )
                 => ( /\ result[c].kind = "StatusCodeError"
                      /\ HTTPStatusCode(result[c]) = 404
                      /\ trace[c].parser = 0 )

\* a 404 with body "not found", rejected by the default validator
C3_Witness ==
    /\ pc[1] = "done"
    /\ outcome[1] = TextResponse(404, NotFoundText)
    /\ client.validateResponseFn = "ResponseValidator"
    /\ HTTPStatusCode(result[1]) = 404
    /\ trace[1].parser = 0

\* whether NewClient was given RequestBasicAuthOption
HasBasicAuth == \E k \in 1 .. Len(options) : options[k].opt = "RequestBasicAuthOption"

\* C4: every request a client built with RequestBasicAuthOption(User, Pass) hands
\* to the transport carries the Authorization header of that pair.
C4_BasicAuthOnEveryRequest ==
    \A c \in Calls :
        (trace[c].transport > 0 /\ HasBasicAuth)
            => wire[c].Header["Authorization"] = << BasicAuthValue(User, Pass) >>

\* the request a call hands to the transport when no other call touches what
\* its options touch: the options run on the header map and reader as the
\* caller made them
Isolated(c) ==
    LET pristine == [h \in HeaderRefs |-> IF h = H1 THEN H1Initial ELSE EmptyHeader]
        built == RunChain(client.requestOptionsChain \o args[c].options, 1,
                          FreshRequest(c, args[c].method), pristine, ReaderBytes)
    IN  OnWire(built.req, built.headers, ReaderBytes)

\* C5: the request each call hands to the transport is the one its own options
\* build; what another call did to its request is not in it.
C5_CallsIndependent ==
    \A c \in Calls : trace[c].transport > 0 => wire[c] = Isolated(c)

\* C6: the default validator accepts a status of at most 300 and leaves the body
\* unread; above 300 it rejects with a StatusCodeError carrying the code, the
\* status text and the whole body, or with a read error when the body cannot be
\* read.
C6_DefaultValidator ==
    \A c \in Calls :
        /\ pc[c] = "validate" =>
              LET v == ResponseValidator(resp[c], body[c], copy[c])
              IN  /\ v.err = Nil <=> outcome[c].StatusCode <= 300
                  /\ v.err = Nil => (v.body = body[c] /\ v.copy = copy[c])
        /\ (trace[c].validator = 1 /\ client.validateResponseFn = "ResponseValidator") =>
              IF outcome[c].StatusCode <= 300 THEN trace[c].verdict = Nil
              ELSE IF outcome[c].readErr
              THEN /\ trace[c].verdict.kind = "failed to read response body"
                   /\ trace[c].verdict.kind # "StatusCodeError"
              ELSE trace[c].verdict =
                      [ kind |-> "StatusCodeError", code |-> outcome[c].StatusCode,
                        status |-> StatusText(outcome[c].StatusCode),
                        text |-> outcome[c].content ]

\* a 301 rejected with the whole body in the error
C6_Witness ==
    /\ pc[1] = "done"
    /\ client.validateResponseFn = "ResponseValidator"
    /\ outcome[1] = TextResponse(301, NotFoundText)
    /\ result[1] = StatusCodeError(301, "301 Moved Permanently", NotFoundText)

\* a 300 accepted with its body still unread
C6_WitnessAccepted ==
    /\ pc[1] = "parse"
    /\ client.validateResponseFn = "ResponseValidator"
    /\ outcome[1].StatusCode = 300
    /\ ~body[1].consumed

\* what DoRequest returns and its parser stores when nothing is logged: debug
\* off and no logger, transport answer t, a custom validator that says accept
Quiet(c, t, accept) ==
    LET a == args[c]
        pristine == [h \in HeaderRefs |-> IF h = H1 THEN H1Initial ELSE EmptyHeader]
        built == RunChain(client.requestOptionsChain \o a.options, 1,
                          FreshRequest(c, a.method), pristine, ReaderBytes)
        v == ValidateResponse(client.validateResponseFn, accept, ResponseOf(t), StreamOf(t), NoCopy)
        quietParser == IF a.parser.kind = "NoBodyParser" THEN NoBodyParser("nil") ELSE a.parser
        p == RunParser(quietParser, ResponseOf(t), v.body, v.copy)
    IN  IF ~ValidMethod(a.method)
        THEN [result |-> Err("net/http: invalid method", 0, "", a.method), dst |-> Unset]
        ELSE IF built.err # Nil THEN [result |-> WrapOption(built.err), dst |-> Unset]
        ELSE IF t.err THEN [result |-> Err("transport error", 0, "", ""), dst |-> Unset]
        ELSE IF v.err # Nil THEN [result |-> v.err, dst |-> Unset]
        ELSE [result |-> p.err, dst |-> p.dst]

\* C7: a call returns, and its parser stores, what the same call returns and
\* stores with nothing logged, for the transport answer and validator verdict
\* the call met (any, where the call never asked).
C7_LoggingNeverChangesOutcome ==
    \A c \in Calls :
        pc[c] = "done" =>
            \E t \in (IF trace[c].transport > 0 THEN {outcome[c]} ELSE TransportOutcomes),
               accept \in (IF trace[c].validator > 0 THEN {trace[c].verdict = Nil} ELSE BOOLEAN) :
                [result |-> result[c], dst |-> dst[c]] = Quiet(c, t, accept)

\* the error an option returns, which depends on its captured input alone
OptionError(o) ==
    RunOption(o, FreshRequest(1, "GET"), [h \in HeaderRefs |-> EmptyHeader], ReaderBytes).err

\* the position in Declared(c) of the first option that fails, 0 when none does
FirstFailing(c) ==
    LET d == Declared(c)
        bad == {k \in 1 .. Len(d) : OptionError(d[k].opt) # Nil}
    IN  IF bad = {} THEN 0 ELSE CHOOSE k \in bad : \A j \in bad : k <= j

\* C8: when an option of either chain fails, no later option is applied, the
\* transport is never invoked, and DoRequest returns an error wrapping the
\* option's as soon as that option has run.
C8_OptionErrorBeforeIO ==
    \A c \in Calls :
        (pc[c] # "idle" /\ ValidMethod(args[c].method) /\ FirstFailing(c) > 0) =>
            /\ Len(applied[c]) <= FirstFailing(c)
            /\ trace[c].transport = 0
            /\ wire[c] = NothingOnWire
            /\ Len(applied[c]) = FirstFailing(c) =>
                  /\ pc[c] = "done"
                  /\ result[c] = WrapOption(OptionError(Declared(c)[FirstFailing(c)].opt))
                  /\ result[c].text = OptionError(Declared(c)[FirstFailing(c)].opt).kind
            /\ Len(applied[c]) < FirstFailing(c) => result[c] \in {NotReturned, Panic}

\* the second of three global options failed: the third never ran
C8_Witness ==
    /\ pc[1] = "done"
    /\ Len(client.requestOptionsChain) = 3
    /\ Len(applied[1]) = 2
    /\ result[1] = WrapOption(Err("WithQueryOpt error", 0, "", ""))
    /\ trace[1].transport = 0

\* the positions in opts of the options named name
Setters(opts, name) == {k \in 1 .. Len(opts) : opts[k].opt = name}
Last(S) == CHOOSE k \in S : \A j \in S : j <= k

\* everything the appending options of opts[from..] append, in order
RECURSIVE Appended(_, _)
Appended(opts, from) ==
    IF from > Len(opts) THEN << >>
    ELSE (IF opts[from].opt \in {"WithRequestOptions", "RequestBasicAuthOption"}
          THEN opts[from].fns ELSE << >>) \o Appended(opts, from + 1)

\* C9: after NewClient each scalar field holds what the last option setting it
\* gave, or its default (a transport with a 30 second timeout, the default
\* validator, debug off) when none did; the chain is everything the appending
\* options appended, in order.
C9_NewClient ==
    constructed =>
        /\ client.endpoint = Endpoint
        /\ client.httpClient =
              IF Setters(options, "WithHttpClient") = {}
              THEN [impl |-> "http.Client", timeout |-> 30]
              ELSE options[Last(Setters(options, "WithHttpClient"))].h
        /\ Setters(options, "WithLog") # {} =>
              client.log = options[Last(Setters(options, "WithLog"))].s
        /\ client.debug =
              IF Setters(options, "WithDebug") = {} THEN FALSE
              ELSE options[Last(Setters(options, "WithDebug"))].b
        /\ client.validateResponseFn =
              IF Setters(options, "WithResponseValidator") = {} THEN "ResponseValidator"
              ELSE options[Last(Setters(options, "WithResponseValidator"))].s
        /\ client.requestOptionsChain = Appended(options, 1)

\* two options set the debug flag, the later one won, and two appended
C9_Witness ==
    /\ constructed
    /\ options = <<WithDebug(TRUE), WithDebug(FALSE)>>
    /\ client.debug = FALSE

\* a chain built by two appending options
C9_WitnessChain ==
    /\ constructed
    /\ options = <<RequestBasicAuthOption(User, Pass), WithRequestOptions(<<UserAgentOpt>>)>>
    /\ client.requestOptionsChain = <<SetBasicAuthOpt(User, Pass), UserAgentOpt>>

\* every stage of the call ran and succeeded
AllStagesSucceeded(c) ==
    /\ ValidMethod(args[c].method)
    /\ applied[c] = Declared(c) /\ trace[c].optionErr = Nil
    /\ trace[c].transport = 1 /\ ~outcome[c].err
    /\ trace[c].validator = 1 /\ trace[c].verdict = Nil
    /\ trace[c].parser = 1 /\ trace[c].parserErr = Nil

\* C10: a returned call returned nil exactly when every stage succeeded; a stage
\* that failed is the last that ran and its error is what the call returned
\* (an option's wrapped, the others unchanged); a parser ran only after the
\* transport was invoked and the validator accepted.
C10_FirstFailingStage ==
    \A c \in Calls :
        /\ trace[c].parser > 0 =>
              (trace[c].transport = 1 /\ trace[c].validator = 1 /\ trace[c].verdict = Nil)
        /\ trace[c].validator > 0 => (trace[c].transport = 1 /\ ~outcome[c].err)
        /\ trace[c].transport > 0 => trace[c].optionErr = Nil
        /\ pc[c] = "done" =>
              /\ result[c] = Nil <=> AllStagesSucceeded(c)
              /\ trace[c].optionErr # Nil =>
                    ( /\ result[c].text = trace[c].optionErr.kind
                      /\ trace[c].transport = 0 /\ trace[c].validator = 0 /\ trace[c].parser = 0 )
              /\ (trace[c].transport > 0 /\ outcome[c].err) =>
                    ( /\ result[c] = Err("transport error", 0, "", "")
                      /\ trace[c].validator = 0 /\ trace[c].parser = 0 )
              /\ trace[c].verdict # Nil =>
                    (result[c] = trace[c].verdict /\ trace[c].parser = 0)
              /\ trace[c].parser > 0 => result[c] = trace[c].parserErr
              /\ result[c].kind \in {"parser function error", "failed to read resp body",
                                     "EOF", "json syntax error", "unexpected EOF"}
                    => (trace[c].parser = 1 /\ trace[c].transport = 1 /\ trace[c].verdict = Nil
                        /\ trace[c].validator = 1)

\* a parser failed on its nil destination after the response was accepted
C10_Witness ==
    /\ pc[1] = "done"
    /\ args[1].parser = JsonParser("nil")
    /\ result[1] = Err("parser function error", 0, "", "JsonParser")
    /\ trace[1].transport = 1
    /\ trace[1].validator = 1
    /\ trace[1].verdict = Nil

====
